---- MODULE Spec2Model ----
(***************************************************************************)
(* Government-news monitoring pipeline: the collection cycle, the          *)
(* deduplicating store, the PIB alert dispatcher and the scheduler.        *)
(*                                                                         *)
(* Scores are kept in hundredths (0.6 is 60).  Times are ticks of `clock`. *)
(***************************************************************************)
EXTENDS Integers, Sequences, FiniteSets, TLC

VARIABLES
    feed,       \* what the configured sources serve: [is_pib_source, entries,
                \* down (sources whose fetch fails), unstorable (links whose
                \* row the database refuses)]
    articles,   \* table articles: a set of rows
    alerts,     \* table pib_alerts: a set of rows
    clock,      \* datetime.utcnow(), in ticks
    pc,         \* per collector process: position in collect_once / collect_async
    kind,       \* per collector process: "sync" (NewsCollector) or "async" (AsyncNewsCollector)
    pos,        \* per collector process: index of the entry being handled
    art,        \* per collector process: the article dict handed to upsert_article
    existing,   \* per collector process: id of the row the upsert query found, 0 for none
    created,    \* per collector process: counter created of the cycle (returned at the end)
    updated,    \* per collector process: counter updated of the cycle (returned at the end)
    pending,    \* POST /collect requests received whose background run has not started
    dpc,        \* per alert dispatcher: position in send_pib_alert
    darticle,   \* per alert dispatcher: article_id argument
    alert_id,   \* per alert dispatcher: local alert_id (0 is None)
    success,    \* per alert dispatcher: outcome of _send_email_notification
    item,       \* the article dict one call of _entry_to_article is building
    fetch       \* step 1 of collect_async: the tasks of the feeds and the batch
                \* being gathered

vars == <<feed, articles, alerts, clock, pc, kind, pos, art, existing, created,
          updated, pending, dpc, darticle, alert_id, success, item, fetch>>

collectorVars == <<pc, kind, pos, art, existing, created, updated>>
dispatchVars == <<dpc, darticle, alert_id, success>>

-----------------------------------------------------------------------------
(* Bounds of the model *)

MaxClock == 4         \* commits observed in one behaviour
NumWorkers == 1       \* threads of the background-task pool
MaxPending == 2       \* POST /collect requests waiting at once
NumDispatchers == 2   \* concurrent callers of send_pib_alert
NumFeeds == 12        \* feeds configured in feeds.yaml

(* Program constants *)

ALERT_NEGATIVE_THRESHOLD == 60
ALERT_ENABLED == TRUE
SMTP_ENABLED == TRUE
RELEVANCE_MIN == 40
CONFIDENCE_MIN == 70
max_concurrent_feeds == 10

Urls == {1, 2}                    \* article links
Titles == {1, 2}                  \* 1: the title first served, 2: the title after an edit
Published == {0, 1}               \* 0: the entry carries no date
Periodic == 0                     \* the periodic_collect task of the event loop
Workers == 1..NumWorkers          \* threads running the /collect background task
Procs == {Periodic} \cup Workers
Dispatchers == 1..NumDispatchers

NoItem == [stage |-> "none"]

Feeds == 1..NumFeeds              \* positions in self.feeds
NoFetch == [phase |-> "none", first |-> 0, task |-> [f \in Feeds |-> "none"]]

NoArt == [url |-> 0, title |-> 0, published_at |-> 0, hash |-> 0,
          sentiment_label |-> "none", sentiment_score |-> 0,
          goi_schemes |-> 0, goi_ministries |-> 0,
          content_category |-> "none", should_show_pib |-> FALSE,
          relevance_score |-> 0, confidence_score |-> 0]

-----------------------------------------------------------------------------
(* utils.compute_article_hash: SHA-256 of "url|title|iso(published_at)",   *)
(* modelled as an injective encoding of the three parts.                   *)

HashBase == MaxClock + 10

compute_article_hash(url, title, published_at) ==
    (url * HashBase + title) * HashBase + published_at

(* datetime.utcnow() as a published_at value: distinct from the feed's dates *)
Now == 2 + clock

-----------------------------------------------------------------------------
(* The feed and the enrichment of one entry *)

Categories == {"Government", "Political"}

(* What nlp.analyze + normalize_sentiment can give for a text; an entry's   *)
(* field sentiments holds the outputs the model may give for its text.      *)
Sentiments == {[label |-> "negative", score |-> 60],
               [label |-> "negative", score |-> 40],
               [label |-> "positive", score |-> 60]}

NoSentiment == [label |-> "none", score |-> 0]

(* dict.get(key, default) of Python *)
DictGet(d, key, default) == IF key \in DOMAIN d THEN d[key] ELSE default

(* dict.update(other) of Python *)
DictUpdate(d, other) ==
    [k \in (DOMAIN d) \cup (DOMAIN other) |->
        IF k \in DOMAIN other THEN other[k] ELSE d[k]]

(* the values both collectors put in the dict when                          *)
(* calculate_confidence_score raises                                        *)
ConfidenceFallback ==
    [confidence_score |-> 50, confidence_level |-> "medium",
     confidence_factors |-> {"error_in_calculation"},
     auto_approved |-> FALSE, auto_rejected |-> FALSE,
     needs_verification |-> TRUE,
     anomalies |-> {"confidence_calculation_error"}]

(* NewsCollector._entry_to_article: the dict built from a feed entry.  The  *)
(* sentiment model runs only when the keyword pre-filter passes.            *)
entry_to_article(e, s) ==
    LET sent == IF e.prelim_goi THEN s ELSE NoSentiment
        published_at == e.published
        article_dict ==
            [url |-> e.url, title |-> e.title, published_at |-> published_at,
             hash |-> compute_article_hash(e.url, e.title, published_at),
             sentiment_label |-> sent.label, sentiment_score |-> sent.score,
             goi_schemes |-> e.goi_schemes, goi_ministries |-> e.goi_ministries,
             content_category |-> e.content_category,
             should_show_pib |-> e.should_show_pib,
             relevance_score |-> e.relevance_score,
             confidence_score |-> e.confidence_score]
    IN IF e.confidence_fails THEN DictUpdate(article_dict, ConfidenceFallback)
       ELSE article_dict

(* AsyncNewsCollector.process_article_sync + steps 3-5 of collect_async:    *)
(* an entry without a date is stamped with utcnow().                        *)
async_article(e, s) ==
    LET published_at == IF e.published # 0 THEN e.published ELSE Now
        article_dict ==
            [url |-> e.url, title |-> e.title, published_at |-> published_at,
             hash |-> compute_article_hash(e.url, e.title, published_at),
             sentiment_label |-> s.label, sentiment_score |-> s.score,
             goi_schemes |-> e.goi_schemes, goi_ministries |-> e.goi_ministries,
             content_category |-> e.content_category,
             should_show_pib |-> e.should_show_pib,
             relevance_score |-> e.relevance_score,
             confidence_score |-> e.confidence_score]
    IN IF e.confidence_fails THEN DictUpdate(article_dict, ConfidenceFallback)
       ELSE article_dict

(* NewsCollector.collect_once: the should_save decision *)
should_save(a, is_pib_source) ==
    LET is_gov_category == a.content_category = "Government"
        should_show == a.should_show_pib = TRUE
        has_schemes == a.goi_schemes > 0
        has_ministries == a.goi_ministries > 0
    IN IF is_pib_source /\ (has_schemes \/ has_ministries) THEN TRUE
       ELSE IF is_gov_category /\ should_show
            THEN (a.relevance_score >= RELEVANCE_MIN
                  \/ a.confidence_score >= CONFIDENCE_MIN
                  \/ has_schemes \/ has_ministries)
            ELSE FALSE

(* AsyncNewsCollector: an entry reaches the upsert loop when it passes the  *)
(* early rejector and the keyword pre-filter and should_show_pib is set.    *)
async_keep(e, a) ==
    /\ ~e.early_reject
    /\ e.prelim_goi
    /\ a.should_show_pib

Max(a, b) == IF a >= b THEN a ELSE b
Min(a, b) == IF a <= b THEN a ELSE b

-----------------------------------------------------------------------------
(* language_processor.MultilingualProcessor.  A text is known by its length *)
(* after strip(), its dominant script and what langdetect says about it.    *)

TextLengths == {2, 5, 12}
Scripts == {"Latin", "Devanagari", "Tamil"}
DetectorSays == {"raises", "other", "en", "hi", "ta"}

(* detect_language *)
detect_language(len, script, detected) ==
    IF len < 3
    THEN [code |-> "unknown", script |-> "Unknown", confidence |-> 0]
    ELSE LET by_script == IF script = "Devanagari" THEN "none"
                          ELSE IF script = "Tamil" THEN "ta" ELSE "en"
             base == IF by_script # "none" THEN 90 ELSE 50
         IN IF detected = "raises"
            THEN IF script = "Devanagari"
                 THEN [code |-> "hi", script |-> script, confidence |-> 60]
                 ELSE [code |-> by_script, script |-> script, confidence |-> base]
            ELSE IF detected = "other"
            THEN [code |-> by_script, script |-> script, confidence |-> base]
            ELSE IF script = "Devanagari"
            THEN [code |-> detected, script |-> script, confidence |-> 90]
            ELSE IF by_script = detected
            THEN [code |-> by_script, script |-> script, confidence |-> 95]
            ELSE [code |-> by_script, script |-> script, confidence |-> base]

(* _entry_to_article: the language kept for the article *)
ArticleLanguage(feed_language, lang) ==
    IF lang.confidence > 85 THEN lang.code
    ELSE IF feed_language = "none" THEN lang.code
    ELSE feed_language

(* translate_to_english: the text itself for English, the translation when *)
(* a step of the chain gives one, None ("none") when every step fails      *)
translate_to_english(source_lang, chain_ok) ==
    IF source_lang = "en" THEN "original"
    ELSE IF chain_ok THEN "translated" ELSE "none"

(* _entry_to_article: text_for_nlp *)
TextForNlp(language, translated_text) ==
    IF language # "none" /\ language # "en" /\ translated_text # "none"
    THEN translated_text
    ELSE "original"

-----------------------------------------------------------------------------
(* nlp_model.NLPModel.analyze with cache.NewsCache, the rule-based adjuster *)
(* and utils.normalize_sentiment                                            *)

Labels == {"positive", "negative", "neutral"}

(* what the sentiment model returns for a text: None, or a label and the    *)
(* probability of that label                                                *)
NoRaw == [label |-> "none", score |-> 0]
RawSentiments == {NoRaw} \cup [label : Labels, score : {35, 50, 70, 97}]

(* the adjustment the keywords of the text give, when it has any keyword *)
NoAdjustment == [found |-> FALSE, by |-> 0]
Adjustments == {NoAdjustment} \cup [found : {TRUE}, by : {-30, 0, 30}]

(* the cache: no client, a client whose calls fail, a working client that   *)
(* holds nothing for the text, a working client that holds a sentiment      *)
CacheStates == {"absent", "failing", "miss", "hit"}
CachedSentiment == [label |-> "positive", score |-> 70, polarity |-> 70]
NoSentimentDict == [label |-> "none", score |-> 0, polarity |-> 0]

(* Mutant: the Redis call is made outside a try block *)
get_sentiment_unguarded(cache) ==
    IF cache = "failing" THEN [raised |-> TRUE, value |-> NoSentimentDict]
    ELSE IF cache = "hit" THEN [raised |-> FALSE, value |-> CachedSentiment]
    ELSE [raised |-> FALSE, value |-> NoSentimentDict]

(* NewsCache.get_sentiment *)
get_sentiment(cache) ==
    IF cache = "hit" THEN [raised |-> FALSE, value |-> CachedSentiment]
    ELSE [raised |-> FALSE, value |-> NoSentimentDict]

(* NewsCache.set_sentiment: the value is kept by a working client only *)
set_sentiment(cache) ==
    [raised |-> FALSE, stored |-> cache \in {"miss", "hit"}]

(* NLPModel._convert_to_polarity *)
convert_to_polarity(label, score) ==
    IF label = "positive" THEN score
    ELSE IF label = "negative" THEN 0 - score
    ELSE 0

(* RuleBasedSentimentAdjuster.adjust_sentiment *)
adjust_sentiment(label, score, adj) ==
    IF ~adj.found THEN [adjusted_label |-> label, adjusted_score |-> score]
    ELSE LET adjusted_score == Max(0, Min(100, score + adj.by))
         IN [adjusted_label |-> IF adjusted_score >= 60 THEN "positive"
                                ELSE IF adjusted_score <= 40 THEN "negative"
                                ELSE "neutral",
             adjusted_score |-> adjusted_score]

(* the sentiment the models and the adjuster compute for a text *)
ComputedSentiment(raw, adj) ==
    IF raw = NoRaw THEN NoSentimentDict
    ELSE LET r == adjust_sentiment(raw.label, raw.score, adj)
         IN [label |-> r.adjusted_label, score |-> r.adjusted_score,
             polarity |-> convert_to_polarity(r.adjusted_label, r.adjusted_score)]

(* NLPModel.analyze: the cache is read, the models run, the computed        *)
(* sentiment is the result and is written to the cache                      *)
analyze(cache, raw, adj) ==
    LET cached == get_sentiment(cache)
        computed == ComputedSentiment(raw, adj)
    IN IF cached.raised THEN [raised |-> TRUE, sentiment |-> NoSentimentDict]
       ELSE IF computed # NoSentimentDict /\ cached.value = NoSentimentDict
               /\ set_sentiment(cache).raised
       THEN [raised |-> TRUE, sentiment |-> NoSentimentDict]
       ELSE [raised |-> FALSE, sentiment |-> computed]

(* utils.normalize_sentiment *)
normalize_sentiment(label, score) ==
    IF score >= 60 THEN [label |-> label, score |-> score]
    ELSE IF score <= 40
    THEN [label |-> IF label = "positive" THEN "negative"
                    ELSE IF label = "negative" THEN "positive" ELSE label,
          score |-> score]
    ELSE [label |-> "neutral", score |-> score]

-----------------------------------------------------------------------------
(* confidence_scorer.calculate_confidence_score.  The signals are what the  *)
(* keyword counters and detectors find in the title and the summary.        *)

ScoreSignals ==
    [gov_keywords : {0, 1, 3, 5}, scheme_count : 0..3, trusted : BOOLEAN,
     ministries : BOOLEAN, classification_confidence : {0, 80, 95},
     is_goi : BOOLEAN, exclusion : BOOLEAN, entertainment : BOOLEAN,
     tribute : BOOLEAN, old : BOOLEAN, long_title : BOOLEAN]

(* Python floats.  A score is an IEEE 754 double; it is kept as n, the      *)
(* nearest number of hundredths, and e, the distance of the double from    *)
(* n/100 in units of 2^-56 / 25 (every double met here is a whole number   *)
(* of 2^-56, and 1/100 is 2^54 / 25 of them).                               *)
Double(n, e) == [n |-> n, e |-> e]

(* the double a decimal literal of the scorer denotes: 0.1 is              *)
(* 0.1000000000000000055..., 0.3 is 0.2999999999999999888..., and so on    *)
Literal(n) ==
    Double(n, CASE n = 5 -> 5 [] n = 10 -> 10 [] n = 15 -> -10 [] n = 20 -> 20
                [] n = 30 -> -20 [] n = 40 -> 40 [] n = 60 -> -40 [] n = 80 -> 80
                [] OTHER -> 0)

(* the spacing of the doubles around a non-negative value, in units of 2^-56 *)
Ulp(n, e) ==
    IF n > 100 \/ (n = 100 /\ e >= 0) THEN 16
    ELSE IF n > 50 \/ (n = 50 /\ e >= 0) THEN 8
    ELSE IF n > 25 \/ (n = 25 /\ e >= 0) THEN 4
    ELSE IF n >= 13 THEN 2
    ELSE 1

(* round-to-nearest, ties to even, of the exact value (n, e).  The value    *)
(* is D units of 2^-56 with 25 * D = n * 2^54 + e, so D = 9 * e modulo any  *)
(* power of two up to 32.                                                    *)
RoundDouble(n, e) ==
    LET neg == n < 0 \/ (n = 0 /\ e < 0)
        an == IF neg THEN 0 - n ELSE n
        ae == IF neg THEN 0 - e ELSE e
        k == Ulp(an, ae)
        r == (9 * ae) % k
        d == IF r = 0 THEN 0
             ELSE IF 2 * r < k THEN 0 - r
             ELSE IF 2 * r > k THEN k - r
             ELSE IF (9 * ae) % (2 * k) = r THEN 0 - r ELSE k - r
        re == ae + 25 * d
    IN IF neg THEN Double(0 - an, 0 - re) ELSE Double(an, re)

(* the one element of a singleton set *)
The(S) == CHOOSE v \in S : TRUE

(* x + y and x - y of Python: the exact sum of the two operands, rounded *)
FloatAdd(x, y) ==
    The({RoundDouble(a.n + b.n, a.e + b.e) : a \in {x}, b \in {y}})
FloatSub(x, y) ==
    The({RoundDouble(a.n - b.n, a.e - b.e) : a \in {x}, b \in {y}})

(* x >= y of Python *)
FloatGe(x, y) == x.n > y.n \/ (x.n = y.n /\ x.e >= y.e)

(* max(0.0, min(1.0, score)) *)
Clamp(score) ==
    The({IF FloatGe(s, Literal(100)) THEN Literal(100)
         ELSE IF FloatGe(Literal(0), s) THEN Literal(0) ELSE s : s \in {score}})

(* round(final_score, 2), in hundredths *)
Round2(x) == x.n

(* what each factor of the scorer adds to the score (a positive number of   *)
(* hundredths) or subtracts from it (a negative one), 0 when its condition *)
(* does not hold, in the order of the code                                 *)
Factors(g) ==
    << IF g.gov_keywords >= 5 THEN 25
       ELSE IF g.gov_keywords >= 3 THEN 20
       ELSE IF g.gov_keywords >= 1 THEN 10 ELSE 0,
       IF g.scheme_count >= 3 THEN 30
       ELSE IF g.scheme_count = 2 THEN 25
       ELSE IF g.scheme_count = 1 THEN 20 ELSE 0,
       IF g.trusted THEN 20 ELSE 0,
       IF g.ministries THEN 15 ELSE 0,
       IF g.classification_confidence > 90 THEN 10
       ELSE IF g.classification_confidence > 70 THEN 5 ELSE 0,
       IF g.is_goi THEN 10 ELSE 0,
       IF g.exclusion THEN -60 ELSE 0,
       IF g.entertainment THEN -40 ELSE 0,
       IF g.tribute THEN -30 ELSE 0,
       IF g.gov_keywords = 0 THEN -20 ELSE 0,
       IF g.old THEN -10 ELSE 0 >>

(* score += literal and score -= literal, factor after factor *)
RECURSIVE Accumulate(_, _, _)
Accumulate(score, factors, i) ==
    IF i > Len(factors) THEN score
    ELSE Accumulate(IF factors[i] > 0
                    THEN FloatAdd(score, Literal(factors[i]))
                    ELSE IF factors[i] < 0
                    THEN FloatSub(score, Literal(0 - factors[i]))
                    ELSE score,
                    factors, i + 1)

(* the sum of the positive factors and the penalties, before the clamp *)
RawConfidence(g) == Accumulate(Literal(0), Factors(g), 1)

(* confidence_scorer.detect_anomalies, on the article as it is after the    *)
(* scheme detection of the scorer updated goi_schemes                       *)
detect_anomalies(a, g) ==
    LET schemes == IF g.scheme_count > 0 THEN g.scheme_count ELSE a.goi_schemes
    IN (IF g.gov_keywords >= 2 /\ g.entertainment
        THEN {"government_entertainment_mix"} ELSE {})
       \cup (IF g.trusted /\ g.entertainment
             THEN {"government_source_entertainment_content"} ELSE {})
       \cup (IF a.sentiment_score > 95
             THEN {"unusually_positive_sentiment"} ELSE {})
       \cup (IF schemes > 0 /\ a.content_category # "Government"
             THEN {"scheme_non_government_category_mismatch"} ELSE {})
       \cup (IF g.long_title THEN {"unusually_long_title"} ELSE {})
       \cup (IF a.language = "none" THEN {"no_language_detected"} ELSE {})
       \cup (IF g.gov_keywords >= 2 /\ g.exclusion
             THEN {"government_international_keyword_mix"} ELSE {})

(* Mutant: the anomaly override leaves auto_approved as the level set it *)
RoutingKeepsApproval(final_score, anomalies) ==
    LET level == IF FloatGe(final_score, Literal(80)) THEN "high"
                 ELSE IF FloatGe(final_score, Literal(50)) THEN "medium"
                 ELSE "low"
    IN [confidence_score |-> Round2(final_score),
        confidence_level |-> level,
        auto_approved |-> (level = "high"),
        auto_rejected |-> (level = "low"),
        needs_verification |-> (level = "medium" \/ anomalies # {}),
        anomalies |-> anomalies]

(* Mutant: a low score asks for verification as well as rejecting *)
RoutingLowVerified(final_score, anomalies) ==
    LET level == IF FloatGe(final_score, Literal(80)) THEN "high"
                 ELSE IF FloatGe(final_score, Literal(50)) THEN "medium"
                 ELSE "low"
    IN [confidence_score |-> Round2(final_score),
        confidence_level |-> level,
        auto_approved |-> (level = "high" /\ anomalies = {}),
        auto_rejected |-> (level = "low"),
        needs_verification |-> (level # "high" \/ anomalies # {}),
        anomalies |-> anomalies]

(* the level of the clamped score, the three routing flags and the anomaly  *)
(* override                                                                  *)
Routing(final_score, anomalies) ==
    LET level == IF FloatGe(final_score, Literal(80)) THEN "high"
                 ELSE IF FloatGe(final_score, Literal(50)) THEN "medium"
                 ELSE "low"
        by_level == [auto_approved |-> (level = "high"),
                     auto_rejected |-> (level = "low"),
                     needs_verification |-> (level = "medium")]
    IN [confidence_score |-> Round2(final_score),
        confidence_level |-> level,
        auto_approved |-> IF anomalies # {} THEN FALSE ELSE by_level.auto_approved,
        auto_rejected |-> by_level.auto_rejected,
        needs_verification |->
            IF anomalies # {} THEN TRUE ELSE by_level.needs_verification,
        anomalies |-> anomalies]

calculate_confidence_score(a, g) ==
    The({Routing(final_score, detect_anomalies(a, g)) :
            final_score \in {Clamp(RawConfidence(g))}})

-----------------------------------------------------------------------------
(* Database.upsert_article *)

(* the confidence fields are removed from the dict before it is stored *)
(* confidence_fields of upsert_article *)
ConfidenceFields ==
    {"confidence_score", "confidence_level", "contributing_factors",
     "auto_approved", "auto_rejected", "needs_verification", "anomalies"}

StripConfidence(a) ==
    [k \in (DOMAIN a) \ ConfidenceFields |-> a[k]]

(* the columns of class Article that the article dicts fill *)
ArticleColumns ==
    {"url", "title", "published_at", "hash", "sentiment_label",
     "sentiment_score", "goi_schemes", "goi_ministries", "content_category",
     "should_show_pib", "relevance_score"}

(* Article(data...) raises TypeError for a keyword that is no column *)
InvalidKeyword(data) == ~((DOMAIN data) \subseteq ArticleColumns)

(* Mutant: the lookup made by hash alone *)
MatchesHashOnly(r, data) == r.hash = data.hash

(* filter((Article.url == data["url"]) | (Article.hash == data["hash"])) *)
Matches(r, data) == r.url = data.url \/ r.hash = data.hash

(* .first() with no ORDER BY: any matching row, or None (0) *)
QueryFirst(data) ==
    LET m == {r \in articles : Matches(r, data)}
    IN IF m = {} THEN {0} ELSE {r.id : r \in m}

(* Mutant: the hash column declared without unique=True *)
HashUniqueDropped(rows, self, h) == TRUE

(* hash = Column(String(64), unique=True): the commit of a row with hash h  *)
(* written to row `self` (0 for a new row) passes the constraint.            *)
HashUnique(rows, self, h) == \A r \in rows : r.id = self \/ r.hash # h

(* id = Column(default=uuid4): a fresh key *)
NewId(rows) == Cardinality(rows) + 1

(* a row of table articles: the columns of data, the key and collected_at *)
MakeRow(data, id, at) ==
    [k \in (DOMAIN data) \cup {"id", "collected_at"} |->
        IF k = "id" THEN id
        ELSE IF k = "collected_at" THEN at
        ELSE data[k]]

(* art = Article(data...): collected_at takes its default, utcnow() *)
NewRow(rows, data) == MakeRow(data, NewId(rows), clock)

(* Mutant: collected_at declared with onupdate=datetime.utcnow *)
UpdatedRowRestamped(r, data) ==
    [k \in DOMAIN r |-> IF k \in DOMAIN data THEN data[k]
                        ELSE IF k = "collected_at" THEN clock ELSE r[k]]

(* for k, v in data.items(): setattr(existing, k, v) *)
UpdatedRow(r, data) ==
    [k \in DOMAIN r |-> IF k \in DOMAIN data THEN data[k] ELSE r[k]]

RowById(rows, i) == CHOOSE r \in rows : r.id = i

(* Mutant: a plain session.add(Article(...)) with no lookup and no check *)
UpsertOutcomeInsertOnly(rows, found, data) ==
    [rows |-> rows \cup {NewRow(rows, data)}, how |-> "created", id |-> NewId(rows)]

(* session.commit() raises for this item whatever the table holds (a value *)
(* the column refuses, for instance)                                       *)
StorageFault(data) == data.url \in feed.unstorable

(* The outcome of the commit: the table afterwards and how the call ended *)
UpsertOutcome(rows, found, data) ==
    IF StorageFault(data) THEN [rows |-> rows, how |-> "raised", id |-> 0]
    ELSE IF found # 0
    THEN IF HashUnique(rows, found, data.hash)
         THEN [rows |-> (rows \ {RowById(rows, found)})
                          \cup {UpdatedRow(RowById(rows, found), data)},
               how |-> "updated", id |-> found]
         ELSE [rows |-> rows, how |-> "raised", id |-> 0]
    ELSE IF InvalidKeyword(data)
         THEN [rows |-> rows, how |-> "raised", id |-> 0]
    ELSE IF HashUnique(rows, 0, data.hash)
         THEN [rows |-> rows \cup {NewRow(rows, data)},
               how |-> "created", id |-> NewId(rows)]
         ELSE [rows |-> rows, how |-> "raised", id |-> 0]

-----------------------------------------------------------------------------
(* pib_alerts.send_pib_alert *)

AlertsFor(tbl, a) == {x \in tbl : x.article_id = a}

(* PIBAlert(article_id=..., is_reviewed=False, email_sent=False) *)
NewAlert(tbl, a) ==
    [id |-> Cardinality(tbl) + 1, article_id |-> a,
     is_reviewed |-> FALSE, email_sent |-> FALSE]

(* Mutant: alert.email_sent = True whatever the outcome *)
MarkEmailAlwaysSent(tbl, i, ok) ==
    {IF x.id = i THEN [x EXCEPT !.email_sent = TRUE] ELSE x : x \in tbl}

(* alert.email_sent = success, for the row with id = alert_id *)
MarkEmail(tbl, i, ok) ==
    {IF x.id = i THEN [x EXCEPT !.email_sent = ok] ELSE x : x \in tbl}

(* One whole call made from a collector thread: the table afterwards.       *)
(* db_ok: the session of the insert works; email_ok: the SMTP send works.   *)
send_pib_alert(tbl, a, db_ok, email_ok) ==
    IF ~db_ok THEN tbl
    ELSE IF AlertsFor(tbl, a) # {} THEN tbl
    ELSE IF SMTP_ENABLED
         THEN MarkEmail(tbl \cup {NewAlert(tbl, a)}, Cardinality(tbl) + 1, email_ok)
         ELSE tbl \cup {NewAlert(tbl, a)}

(* collect_once: the alert check made after an upsert *)
ShouldAlert(a, is_created) ==
    LET sentiment_label == a.sentiment_label
        sentiment_score == a.sentiment_score
        schemes == DictGet(a, "schemes", 0)
    IN /\ ALERT_ENABLED
       /\ is_created
       /\ schemes > 0
       /\ sentiment_label = "negative"
       /\ sentiment_score >= ALERT_NEGATIVE_THRESHOLD

-----------------------------------------------------------------------------
(* The collection cycle: NewsCollector.collect_once and                     *)
(* AsyncNewsCollector.collect_async                                         *)

Entries == feed.entries

(* The entries of all configured feeds are laid out one feed after the     *)
(* other; SkipSource(i) is where the loop over feeds goes on when the try   *)
(* block of entry i's feed is left: the first entry of the next feed.       *)
SkipSource(i) ==
    LET later == {j \in (i + 1)..Len(Entries) : Entries[j].source # Entries[i].source}
    IN IF later = {} THEN Len(Entries) + 1
       ELSE CHOOSE j \in later : \A k \in later : j <= k

(* Mutant: the fetch is made outside the try block and its error ends the  *)
(* loop over the feeds                                                      *)
AfterFetchErrorPropagates(i) == Len(Entries) + 1

(* except Exception: logged; the loop goes on with the next feed           *)
(* (collect_once), or the feed contributes no entries (fetch_feed_async)    *)
AfterFetchError(i) == SkipSource(i)

BeginCycle(c, k) ==
    /\ pc' = [pc EXCEPT ![c] = "loop"]
    /\ kind' = [kind EXCEPT ![c] = k]
    /\ pos' = [pos EXCEPT ![c] = 1]
    /\ created' = [created EXCEPT ![c] = 0]
    /\ updated' = [updated EXCEPT ![c] = 0]
    /\ art' = [art EXCEPT ![c] = NoArt]
    /\ existing' = [existing EXCEPT ![c] = 0]
    /\ UNCHANGED <<feed, item, fetch, articles, alerts, clock, dispatchVars>>

(* for e in entries: build the article and decide whether to store it *)
ProcessEntry(c) ==
    /\ pc[c] = "loop"
    /\ pos[c] <= Len(Entries)
    /\ IF Entries[pos[c]].source \in feed.down
       THEN /\ pos' = [pos EXCEPT ![c] = AfterFetchError(pos[c])]
            /\ UNCHANGED <<art, pc>>
       ELSE \E s \in Entries[pos[c]].sentiments :
              LET e == Entries[pos[c]]
                  a == IF kind[c] = "sync" THEN entry_to_article(e, s)
                                           ELSE async_article(e, s)
                  keep == IF kind[c] = "sync" THEN should_save(a, feed.is_pib_source)
                                              ELSE async_keep(e, a)
              IN IF keep
                 THEN /\ art' = [art EXCEPT ![c] = a]
                      /\ pc' = [pc EXCEPT ![c] = "query"]
                      /\ UNCHANGED pos
                 ELSE /\ pos' = [pos EXCEPT ![c] = pos[c] + 1]
                      /\ UNCHANGED <<art, pc>>
    /\ UNCHANGED <<feed, item, fetch, articles, alerts, clock, kind, existing, created,
                   updated, pending, dispatchVars>>

(* upsert_article, first half: the SELECT *)
UpsertQuery(c) ==
    /\ pc[c] = "query"
    /\ \E x \in QueryFirst(StripConfidence(art[c])) :
         existing' = [existing EXCEPT ![c] = x]
    /\ pc' = [pc EXCEPT ![c] = "commit"]
    /\ UNCHANGED <<feed, item, fetch, articles, alerts, clock, kind, pos, art, created,
                   updated, pending, dispatchVars>>

(* result == "created" in collect_async: upsert_article returns the tuple   *)
(* (article, created), which never equals a string.                         *)
AsyncResultIs(how, word) == FALSE

(* upsert_article, second half: the commit, and what the caller does with   *)
(* the outcome.  collect_once lets an exception end the feed; collect_async *)
(* catches it per article.                                                  *)
UpsertCommit(c) ==
    /\ pc[c] = "commit"
    /\ clock < MaxClock
    /\ LET out == UpsertOutcome(articles, existing[c], StripConfidence(art[c]))
           is_created == out.how = "created"
       IN /\ articles' = out.rows
          /\ IF kind[c] = "sync"
             THEN /\ created' = [created EXCEPT ![c] =
                        IF out.how = "created" THEN @ + 1 ELSE @]
                  /\ updated' = [updated EXCEPT ![c] =
                        IF out.how = "updated" THEN @ + 1 ELSE @]
                  /\ pos' = [pos EXCEPT ![c] =
                        IF out.how = "raised" THEN SkipSource(pos[c]) ELSE @ + 1]
                  /\ IF out.how # "raised" /\ ShouldAlert(art[c], is_created)
                     THEN \E db_ok \in BOOLEAN, email_ok \in BOOLEAN :
                            alerts' = send_pib_alert(alerts, out.id, db_ok, email_ok)
                     ELSE UNCHANGED alerts
             ELSE /\ created' = [created EXCEPT ![c] =
                        IF AsyncResultIs(out.how, "created") THEN @ + 1 ELSE @]
                  /\ updated' = [updated EXCEPT ![c] =
                        IF AsyncResultIs(out.how, "updated") THEN @ + 1 ELSE @]
                  /\ pos' = [pos EXCEPT ![c] = @ + 1]
                  /\ UNCHANGED alerts
    /\ clock' = clock + 1
    /\ pc' = [pc EXCEPT ![c] = "loop"]
    /\ existing' = [existing EXCEPT ![c] = 0]
    /\ art' = [art EXCEPT ![c] = NoArt]
    /\ UNCHANGED <<feed, item, fetch, kind, pending, dispatchVars>>

(* collect_async, final_articles: the entries of reachable feeds that pass *)
(* the early filter and the final filter                                   *)
FinalArticles ==
    {i \in 1..Len(Entries) :
        /\ Entries[i].source \notin feed.down
        /\ ~Entries[i].early_reject
        /\ Entries[i].prelim_goi
        /\ Entries[i].should_show_pib}

(* Mutant: the averages are computed without the test for an empty list *)
get_confidence_statistics_unguarded(n) ==
    [raised |-> n = 0, total_articles |-> n]

(* confidence_scorer.get_confidence_statistics: {} for an empty list, else *)
(* counts and averages over len(articles)                                  *)
get_confidence_statistics(n) ==
    IF n = 0 THEN [raised |-> FALSE, total_articles |-> 0]
    ELSE [raised |-> FALSE, total_articles |-> n]

(* return {"created": created, "updated": updated}; collect_async logs the *)
(* confidence statistics of final_articles on its way                      *)
FinishCycle(c) ==
    /\ pc[c] = "loop"
    /\ pos[c] > Len(Entries)
    /\ pc' = [pc EXCEPT ![c] =
                IF kind[c] = "async"
                   /\ get_confidence_statistics(Cardinality(FinalArticles)).raised
                THEN "failed" ELSE "done"]
    /\ UNCHANGED <<feed, item, fetch, articles, alerts, clock, kind, pos, art, existing,
                   created, updated, pending, dispatchVars>>

-----------------------------------------------------------------------------
(* The scheduler: main.periodic_collect and POST /collect                   *)

(* Mutant: collect_once called outside a try block, so an exception ends   *)
(* the periodic task                                                       *)
RestingUncaught(c) == pc[c] \in {"idle", "done"}

(* while True: try: collector.collect_once() except Exception: log it;     *)
(* await asyncio.sleep(interval).  A process rests before its first cycle, *)
(* after a cycle that returned and after one that raised.                  *)
Resting(c) == pc[c] \in {"idle", "done", "failed"}

(* collect_once raises outside its per-feed try blocks (feed.get("url") or *)
(* source.get("language") on a configuration entry that is no mapping)     *)
CycleRaises(c) ==
    /\ pc[c] = "loop"
    /\ pc' = [pc EXCEPT ![c] = "failed"]
    /\ UNCHANGED <<feed, item, fetch, articles, alerts, clock, kind, pos, art, existing,
                   created, updated, pending, dispatchVars>>

PeriodicStart ==
    /\ Resting(Periodic)
    /\ BeginCycle(Periodic, "sync")
    /\ UNCHANGED pending

(* a POST /collect request reaches the server *)
Trigger ==
    /\ pending < MaxPending
    /\ pending' = pending + 1
    /\ UNCHANGED <<feed, item, fetch, articles, alerts, clock, collectorVars, dispatchVars>>

(* the event loop handles the request and hands _run to a pool thread;      *)
(* collect_once of the periodic task blocks the event loop while it runs.   *)
ManualStart(w) ==
    /\ Resting(Periodic)
    /\ pending > 0
    /\ Resting(w)
    /\ pending' = pending - 1
    /\ BeginCycle(w, "sync")

-----------------------------------------------------------------------------
(* send_pib_alert called by concurrent threads, one database step at a time *)

(* a caller that found ALERT_ENABLED, a negative label and a score at the   *)
(* threshold passes the id of the stored article                           *)
DispatchCall(d) ==
    /\ dpc[d] = "idle"
    /\ \E r \in articles :
         /\ ALERT_ENABLED
         /\ r.sentiment_label = "negative"
         /\ r.sentiment_score >= ALERT_NEGATIVE_THRESHOLD
         /\ darticle' = [darticle EXCEPT ![d] = r.id]
    /\ alert_id' = [alert_id EXCEPT ![d] = 0]
    /\ success' = [success EXCEPT ![d] = FALSE]
    /\ dpc' = [dpc EXCEPT ![d] = "check"]
    /\ UNCHANGED <<feed, item, fetch, articles, alerts, clock, collectorVars, pending>>

(* existing_alert = session.query(PIBAlert).filter(article_id == ...).first() *)
(* found: return False.  A failing session leaves alert_id None and the     *)
(* function goes on to the email.                                           *)
AlertCheck(d) ==
    /\ dpc[d] = "check"
    /\ \E db_ok \in BOOLEAN :
         dpc' = [dpc EXCEPT ![d] =
                   IF ~db_ok THEN (IF SMTP_ENABLED THEN "email" ELSE "done")
                   ELSE IF AlertsFor(alerts, darticle[d]) # {} THEN "done"
                   ELSE "insert"]
    /\ UNCHANGED <<feed, item, fetch, articles, alerts, clock, collectorVars, pending,
                   darticle, alert_id, success>>

(* session.add(alert); session.commit(); alert_id = alert.id *)
AlertInsert(d) ==
    /\ dpc[d] = "insert"
    /\ \E db_ok \in BOOLEAN :
         IF db_ok
         THEN /\ alerts' = alerts \cup {NewAlert(alerts, darticle[d])}
              /\ alert_id' = [alert_id EXCEPT ![d] = Cardinality(alerts) + 1]
         ELSE UNCHANGED <<alerts, alert_id>>
    /\ dpc' = [dpc EXCEPT ![d] = IF SMTP_ENABLED THEN "email" ELSE "done"]
    /\ UNCHANGED <<feed, item, fetch, articles, clock, collectorVars, pending, darticle, success>>

(* success = _send_email_notification(...) *)
AlertEmail(d) ==
    /\ dpc[d] = "email"
    /\ \E email_ok \in BOOLEAN : success' = [success EXCEPT ![d] = email_ok]
    /\ dpc' = [dpc EXCEPT ![d] = IF alert_id[d] # 0 THEN "update" ELSE "done"]
    /\ UNCHANGED <<feed, item, fetch, articles, alerts, clock, collectorVars, pending,
                   darticle, alert_id>>

(* alert.email_sent = success; session.commit() -- a failure is logged *)
AlertUpdate(d) ==
    /\ dpc[d] = "update"
    /\ \E db_ok \in BOOLEAN :
         alerts' = IF db_ok THEN MarkEmail(alerts, alert_id[d], success[d])
                            ELSE alerts
    /\ dpc' = [dpc EXCEPT ![d] = "done"]
    /\ UNCHANGED <<feed, item, fetch, articles, clock, collectorVars, pending, darticle,
                   alert_id, success>>

(* the call returns *)
DispatchReturn(d) ==
    /\ dpc[d] = "done"
    /\ dpc' = [dpc EXCEPT ![d] = "idle"]
    /\ darticle' = [darticle EXCEPT ![d] = 0]
    /\ alert_id' = [alert_id EXCEPT ![d] = 0]
    /\ success' = [success EXCEPT ![d] = FALSE]
    /\ UNCHANGED <<feed, item, fetch, articles, alerts, clock, collectorVars, pending>>

-----------------------------------------------------------------------------
(* Feeds *)

Entry(u, t, p, ss, er, pg, cat, show, rel, conf, sch, min) ==
    [url |-> u, title |-> t, published |-> p, sentiments |-> ss, early_reject |-> er,
     prelim_goi |-> pg, content_category |-> cat, should_show_pib |-> show,
     relevance_score |-> rel, confidence_score |-> conf,
     goi_schemes |-> sch, goi_ministries |-> min, source |-> 1,
     confidence_fails |-> FALSE]

(* the same entry when calculate_confidence_score raises on its dict *)
WithConfidenceError(e) == [e EXCEPT !.confidence_fails = TRUE]

(* the same entry served by configured feed number n *)
AtSource(e, n) == [e EXCEPT !.source = n]

Negative60 == [label |-> "negative", score |-> 60]

(* a Government article about a scheme, with link u and title t *)
StoreEntry(u, t) ==
    Entry(u, t, 1, {Negative60}, FALSE, TRUE, "Government", TRUE,
          RELEVANCE_MIN, CONFIDENCE_MIN, 1, 0)

(* The feeds of the service model: one item; the same item twice; an item  *)
(* and its retitled version; two different items.                          *)
ServiceFeeds ==
    {<<StoreEntry(1, 1)>>,
     <<StoreEntry(1, 1), StoreEntry(1, 1)>>,
     <<StoreEntry(1, 1), StoreEntry(1, 2)>>,
     <<StoreEntry(1, 1), StoreEntry(2, 1)>>}

(* one link, every classification *)
ClassifiedEntries ==
    {Entry(1, 1, p, Sentiments, er, pg, cat, show, rel, conf, sch, min) :
        p \in Published, er \in BOOLEAN, pg \in BOOLEAN, cat \in Categories,
        show \in BOOLEAN, rel \in {RELEVANCE_MIN - 10, RELEVANCE_MIN},
        conf \in {CONFIDENCE_MIN - 10, CONFIDENCE_MIN},
        sch \in {0, 1}, min \in {0, 1}}

InitCommon ==
    /\ articles = {}
    /\ alerts = {}
    /\ clock = 0
    /\ pc = [c \in Procs |-> "idle"]
    /\ kind = [c \in Procs |-> "sync"]
    /\ pos = [c \in Procs |-> 1]
    /\ art = [c \in Procs |-> NoArt]
    /\ existing = [c \in Procs |-> 0]
    /\ created = [c \in Procs |-> 0]
    /\ updated = [c \in Procs |-> 0]
    /\ pending = 0
    /\ dpc = [d \in Dispatchers |-> "idle"]
    /\ darticle = [d \in Dispatchers |-> 0]
    /\ alert_id = [d \in Dispatchers |-> 0]
    /\ success = [d \in Dispatchers |-> FALSE]
    /\ fetch = NoFetch

(* The service: the periodic task and the /collect threads over one feed *)
Init ==
    /\ feed \in [is_pib_source : {FALSE}, entries : ServiceFeeds,
                 down : {{}}, unstorable : {{}}]
    /\ InitCommon
    /\ item = NoItem

Next ==
    \/ PeriodicStart
    \/ Trigger
    \/ \E w \in Workers : ManualStart(w)
    \/ \E c \in Procs : ProcessEntry(c)
    \/ \E c \in Procs : UpsertQuery(c)
    \/ \E c \in Procs : UpsertCommit(c)
    \/ \E c \in Procs : FinishCycle(c)

Spec == Init /\ [][Next]_vars

-----------------------------------------------------------------------------
(* One collector run from a script, cycle after cycle, over a feed of one  *)
(* entry: collect_now.py for NewsCollector, a caller of collect_async for  *)
(* AsyncNewsCollector.                                                     *)

DriverStart(k) ==
    /\ Resting(Periodic)
    /\ BeginCycle(Periodic, k)
    /\ UNCHANGED pending

InitSeq ==
    /\ feed \in [is_pib_source : BOOLEAN,
                 entries : {<<e>> : e \in ClassifiedEntries},
                 down : {{}}, unstorable : {{}}]
    /\ InitCommon
    /\ item = NoItem

NextSeq ==
    \/ \E k \in {"sync", "async"} : DriverStart(k)
    \/ ProcessEntry(Periodic)
    \/ UpsertQuery(Periodic)
    \/ UpsertCommit(Periodic)
    \/ FinishCycle(Periodic)

SpecSeq == InitSeq /\ [][NextSeq]_vars

-----------------------------------------------------------------------------
(* One collector run, cycle after cycle, over two configured feeds: feed 1  *)
(* serves two articles, feed 2 serves the second of them as well.  A feed   *)
(* may be unreachable and the first article may be one the database         *)
(* refuses.  OrderFeeds serve an article and its retitled version in the    *)
(* two possible orders.                                                     *)

Sources == {1, 2}

FaultEntries ==
    <<AtSource(StoreEntry(1, 1), 1), AtSource(StoreEntry(2, 1), 1),
      AtSource(StoreEntry(2, 1), 2)>>

OrderFeeds ==
    {<<StoreEntry(1, 1), StoreEntry(1, 2)>>,
     <<StoreEntry(1, 2), StoreEntry(1, 1)>>}

(* no feed configured: feeds.yaml is missing, empty, or lists no feed *)
NoFeeds == <<>>

FeedsWithFaults ==
    [is_pib_source : {FALSE}, entries : {FaultEntries},
     down : SUBSET Sources, unstorable : {{}, {1}}]
        \cup [is_pib_source : {FALSE}, entries : OrderFeeds \cup {NoFeeds},
              down : {{}}, unstorable : {{}}]

InitFeeds ==
    /\ feed \in FeedsWithFaults
    /\ InitCommon
    /\ item = NoItem

SpecFeeds == InitFeeds /\ [][NextSeq]_vars

-----------------------------------------------------------------------------
(* Cycles over feeds with an entry whose confidence calculation raises: as  *)
(* the first entry, after its article was stored, and as the last entry.    *)

ConfidenceErrorFeeds ==
    {<<WithConfidenceError(StoreEntry(1, 1)), StoreEntry(2, 1)>>,
     <<StoreEntry(1, 1), WithConfidenceError(StoreEntry(1, 1)), StoreEntry(2, 1)>>,
     <<StoreEntry(2, 1), WithConfidenceError(StoreEntry(1, 1))>>}

InitConfidence ==
    /\ feed \in [is_pib_source : BOOLEAN, entries : ConfidenceErrorFeeds,
                 down : {{}}, unstorable : {{}}]
    /\ InitCommon
    /\ item = NoItem

SpecConfidence == InitConfidence /\ [][NextSeq]_vars

-----------------------------------------------------------------------------
(* The periodic task alone, over feeds whose entry the acceptance rule      *)
(* rejects, with cycles that may raise.  The event loop resumes the task    *)
(* when its sleep ends and collect_once runs to its end once called.        *)

RejectedEntries ==
    {e \in ClassifiedEntries :
        \A s \in e.sentiments : ~should_save(entry_to_article(e, s), FALSE)}

InitSched ==
    /\ feed \in [is_pib_source : {FALSE},
                 entries : {<<e>> : e \in RejectedEntries} \cup {NoFeeds},
                 down : SUBSET Sources, unstorable : {{}}]
    /\ InitCommon
    /\ item = NoItem

NextSched ==
    \/ PeriodicStart
    \/ ProcessEntry(Periodic)
    \/ CycleRaises(Periodic)
    \/ FinishCycle(Periodic)

SpecSched ==
    /\ InitSched /\ [][NextSched]_vars
    /\ WF_vars(PeriodicStart)
    /\ WF_vars(ProcessEntry(Periodic))
    /\ WF_vars(FinishCycle(Periodic))

-----------------------------------------------------------------------------
(* Step 1 of collect_async: one task per feed, gathered batch by batch      *)

(* tasks[i:i + max_concurrent_feeds] *)
BatchUnsliced(first) == first..NumFeeds

Batch(first) == first..Min(first + max_concurrent_feeds - 1, NumFeeds)

InFlight == {f \in Feeds : fetch.task[f] = "in_flight"}

(* tasks = [self.fetch_feed_async(session, feed) for feed in self.feeds]:
   the coroutines exist and none has started *)
CreateTasks ==
    /\ fetch.phase = "none"
    /\ fetch' = [phase |-> "created", first |-> 1,
                 task |-> [f \in Feeds |-> "created"]]
    /\ UNCHANGED <<feed, item, articles, alerts, clock, collectorVars, pending,
                   dispatchVars>>

(* await asyncio.gather over the batch: every task of the batch is started *)
GatherBatch ==
    /\ fetch.phase = "created"
    /\ fetch.first <= NumFeeds
    /\ fetch' = [fetch EXCEPT
                    !.phase = "gathering",
                    !.task = [f \in Feeds |->
                                IF f \in Batch(fetch.first) THEN "in_flight"
                                ELSE fetch.task[f]]]
    /\ UNCHANGED <<feed, item, articles, alerts, clock, collectorVars, pending,
                   dispatchVars>>

(* fetch_feed_async ends: with the feed's articles, or with [] after a
   timeout, an HTTP status other than 200 or an exception *)
FetchReturns(f) ==
    /\ fetch.task[f] = "in_flight"
    /\ \E outcome \in {"articles", "empty"} :
           fetch' = [fetch EXCEPT !.task[f] = outcome]
    /\ UNCHANGED <<feed, item, articles, alerts, clock, collectorVars, pending,
                   dispatchVars>>

(* gather returns once every task of the batch has ended; the loop moves to
   the next slice *)
BatchDone ==
    /\ fetch.phase = "gathering"
    /\ InFlight = {}
    /\ fetch' = [fetch EXCEPT !.phase = "created",
                              !.first = fetch.first + max_concurrent_feeds]
    /\ UNCHANGED <<feed, item, articles, alerts, clock, collectorVars, pending,
                   dispatchVars>>

InitFetch ==
    /\ feed \in [is_pib_source : {FALSE}, entries : {NoFeeds},
                 down : {{}}, unstorable : {{}}]
    /\ InitCommon
    /\ item = NoItem

NextFetch ==
    \/ CreateTasks
    \/ GatherBatch
    \/ \E f \in Feeds : FetchReturns(f)
    \/ BatchDone

SpecFetch == InitFetch /\ [][NextFetch]_vars

-----------------------------------------------------------------------------
(* The alert dispatcher called by concurrent threads over a filled store   *)

SeedSentiment(u) ==
    IF u = 1 THEN Negative60 ELSE [label |-> "positive", score |-> 60]

SeedRows ==
    {MakeRow(StripConfidence(entry_to_article(StoreEntry(u, 1), SeedSentiment(u))),
             u, u - 1) : u \in Urls}

InitAlert ==
    /\ feed = [is_pib_source |-> FALSE,
               entries |-> <<StoreEntry(1, 1), StoreEntry(2, 1)>>,
               down |-> {}, unstorable |-> {}]
    /\ articles = SeedRows
    /\ alerts = {}
    /\ clock = Cardinality(Urls)
    /\ pc = [c \in Procs |-> "idle"]
    /\ kind = [c \in Procs |-> "sync"]
    /\ pos = [c \in Procs |-> 1]
    /\ art = [c \in Procs |-> NoArt]
    /\ existing = [c \in Procs |-> 0]
    /\ created = [c \in Procs |-> 0]
    /\ updated = [c \in Procs |-> 0]
    /\ pending = 0
    /\ item = NoItem
    /\ dpc = [d \in Dispatchers |-> "idle"]
    /\ darticle = [d \in Dispatchers |-> 0]
    /\ alert_id = [d \in Dispatchers |-> 0]
    /\ success = [d \in Dispatchers |-> FALSE]
    /\ fetch = NoFetch

NextAlert ==
    \/ \E d \in Dispatchers : DispatchCall(d)
    \/ \E d \in Dispatchers : AlertCheck(d)
    \/ \E d \in Dispatchers : AlertInsert(d)
    \/ \E d \in Dispatchers : AlertEmail(d)
    \/ \E d \in Dispatchers : AlertUpdate(d)
    \/ \E d \in Dispatchers : DispatchReturn(d)

SpecAlert == InitAlert /\ [][NextAlert]_vars

-----------------------------------------------------------------------------
(* NewsCollector._entry_to_article, step by step, on one feed entry *)

FeedLanguages == {"none", "en", "hi"}

ItemUnchanged ==
    UNCHANGED <<feed, fetch, articles, alerts, clock, collectorVars, pending,
                dispatchVars>>

(* title, summary and the feed metadata are read from the entry *)
StartItem ==
    /\ item.stage \in {"none", "nlp"}
    /\ \E len \in TextLengths, fl \in FeedLanguages :
         item' = [stage |-> "entry", len |-> len, feed_language |-> fl]
    /\ ItemUnchanged

(* lang_result = self.lang_processor.detect_language(full_text) *)
DetectLanguage ==
    /\ item.stage = "entry"
    /\ \E script \in Scripts, detected \in DetectorSays :
         LET lang == detect_language(item.len, script, detected)
         IN item' = [stage |-> "detected", len |-> item.len,
                     detected_language |-> lang.code,
                     detected_script |-> lang.script,
                     language_confidence |-> lang.confidence,
                     language |-> ArticleLanguage(item.feed_language, lang)]
    /\ ItemUnchanged

(* translated_text = self.lang_processor.translate_to_english(...) *)
Translate ==
    /\ item.stage = "detected"
    /\ \E chain_ok \in BOOLEAN :
         LET tried == item.language \notin {"none", "en"}
             translated_text ==
                 IF tried THEN translate_to_english(item.language, chain_ok)
                 ELSE "none"
         IN item' = [stage |-> "translated", len |-> item.len,
                     translation_tried |-> tried,
                     detected_language |-> item.detected_language,
                     detected_script |-> item.detected_script,
                     language_confidence |-> item.language_confidence,
                     language |-> item.language,
                     translated_text |-> translated_text,
                     text_for_nlp |-> TextForNlp(item.language, translated_text)]
    /\ ItemUnchanged

(* prelim_goi = stage2_keyword_filter(...); analysis = self.nlp.analyze(   *)
(* text_for_nlp, ...); label, score = normalize_sentiment(sentiment);       *)
(* sentiment_polarity = sentiment.get("polarity", 0.0)                      *)
Analyze ==
    /\ item.stage = "translated"
    /\ \E prelim_goi \in BOOLEAN, cache \in CacheStates,
          raw \in RawSentiments, adj \in Adjustments :
         LET runs == prelim_goi /\ item.text_for_nlp # "none"
             analysis == IF runs THEN analyze(cache, raw, adj)
                         ELSE [raised |-> FALSE, sentiment |-> NoSentimentDict]
             has == ~analysis.raised /\ analysis.sentiment # NoSentimentDict
             norm == normalize_sentiment(analysis.sentiment.label,
                                         analysis.sentiment.score)
         IN item' = [stage |-> "nlp", len |-> item.len,
                     detected_language |-> item.detected_language,
                     detected_script |-> item.detected_script,
                     language_confidence |-> item.language_confidence,
                     language |-> item.language,
                     translation_tried |-> item.translation_tried,
                     translated_text |-> item.translated_text,
                     text_for_nlp |-> item.text_for_nlp,
                     prelim_goi |-> prelim_goi, nlp_ran |-> runs,
                     cache |-> cache, raw |-> raw, adj |-> adj,
                     raised |-> analysis.raised,
                     sentiment_label |-> IF has THEN norm.label ELSE "none",
                     sentiment_score |-> IF has THEN norm.score ELSE 0,
                     sentiment_polarity |->
                         IF has THEN analysis.sentiment.polarity ELSE 0]
    /\ ItemUnchanged

InitItem ==
    /\ feed = [is_pib_source |-> FALSE, entries |-> <<>>,
               down |-> {}, unstorable |-> {}]
    /\ InitCommon
    /\ item = NoItem

NextItem ==
    \/ StartItem
    \/ DetectLanguage
    \/ Translate
    \/ Analyze

SpecItem == InitItem /\ [][NextItem]_vars

-----------------------------------------------------------------------------
(* The confidence scorer applied to article dicts *)

ScoredFields ==
    {"confidence_score", "confidence_level", "auto_approved", "auto_rejected",
     "needs_verification", "anomalies"}

(* confidence_data = calculate_confidence_score(article_dict);              *)
(* article_dict.update(confidence_data)                                     *)
Score ==
    /\ item.stage = "analyzed"
    /\ \E g \in ScoreSignals :
         \E confidence_data \in {calculate_confidence_score(item, g)} :
            item' = [k \in (DOMAIN item) \cup ScoredFields |->
                        IF k = "stage" THEN "scored"
                        ELSE IF k \in ScoredFields THEN confidence_data[k]
                        ELSE item[k]]
    /\ UNCHANGED <<feed, fetch, articles, alerts, clock, collectorVars, pending,
                   dispatchVars>>

(* the fields of an article dict the scorer reads *)
AnalyzedItems ==
    [stage : {"analyzed"}, language : {"en", "none"}, sentiment_score : {60, 97},
     content_category : Categories, goi_schemes : {0, 1}]

InitScore ==
    /\ feed = [is_pib_source |-> FALSE, entries |-> <<>>,
               down |-> {}, unstorable |-> {}]
    /\ InitCommon
    /\ item \in AnalyzedItems

NextScore == Score

SpecScore == InitScore /\ [][NextScore]_vars

-----------------------------------------------------------------------------
(* Stage 3 of _entry_to_article and step 4 of collect_async: relevance      *)
(* scoring and the scheme boost                                             *)

SchemeNames == {"PM-KISAN", "Ayushman Bharat"}
RelevanceScores == {0, 30, 50, 80, 100}

(* what classify_goi_relevance emits: is_goi, a score in [0, 1] and the
   schemes it matched *)
GoiRelevance ==
    [is_goi : BOOLEAN, score : RelevanceScores, schemes : SUBSET SchemeNames]

(* the names of the schemes find_schemes_in_text matches in the text *)
DetectedSchemes == SUBSET SchemeNames

(* the fields after the scheme detection: the detected names are merged into
   goi_schemes; an item that was not is_goi becomes is_goi with a score of at
   least 0.8 *)
SchemeBoost(relevance, detected_schemes) ==
    LET found == detected_schemes # {}
        boost == found /\ ~relevance.is_goi
    IN [is_goi |-> relevance.is_goi \/ boost,
        relevance_score |-> IF boost THEN Max(relevance.score, 80)
                            ELSE relevance.score,
        goi_schemes |-> IF found THEN relevance.schemes \cup detected_schemes
                        ELSE relevance.schemes]

(* the items that reach the relevance stage *)
NlpItems ==
    [stage : {"nlp"}, language : {"en", "hi", "none"},
     sentiment_label : {"none", "negative", "positive"}]

Relevance ==
    /\ item.stage = "nlp"
    /\ \E relevance \in GoiRelevance, detected_schemes \in DetectedSchemes :
         LET boosted == SchemeBoost(relevance, detected_schemes)
         IN item' = [stage |-> "relevance", language |-> item.language,
                     sentiment_label |-> item.sentiment_label,
                     detected_schemes |-> detected_schemes,
                     is_goi |-> boosted.is_goi,
                     relevance_score |-> boosted.relevance_score,
                     goi_schemes |-> boosted.goi_schemes]
    /\ ItemUnchanged

InitRelevance ==
    /\ feed = [is_pib_source |-> FALSE, entries |-> <<>>,
               down |-> {}, unstorable |-> {}]
    /\ InitCommon
    /\ item \in NlpItems

NextRelevance == Relevance

SpecRelevance == InitRelevance /\ [][NextRelevance]_vars

-----------------------------------------------------------------------------
(* Properties *)

(* process c completes a call of upsert_article in this step *)
UpsertReturns(c) == pc[c] = "commit" /\ pc'[c] = "loop"

Stored(url) == {r \in articles : r.url = url}

(* C1: re-ingesting items that are already stored adds no row: a call of   *)
(* upsert_article for an item whose hash is in the table leaves the number *)
(* of stored articles unchanged, within one cycle and in later cycles.     *)
C1_ReingestAddsNoRow ==
    [][\A c \in Procs :
          (UpsertReturns(c) /\ \E r \in articles : r.hash = art[c].hash)
              => Cardinality(articles') = Cardinality(articles)]_vars

(* a cycle has returned after updating an item that was already stored *)
C1_Witness ==
    \E c \in Procs : pc[c] = "done" /\ updated[c] > 0 /\ Cardinality(articles) = 1

(* C2: no two stored articles have the same hash. *)
C2_HashUnique ==
    \A r1 \in articles, r2 \in articles : r1.hash = r2.hash => r1.id = r2.id

(* two articles are stored and some upsert met a stored item *)
C2_Witness ==
    Cardinality(articles) = 2 /\ clock >= 3

(* C3: the same item submitted twice in succession: the submission that    *)
(* finds no stored row for the item counts created + 1 and updated + 0,    *)
(* the one that finds it counts created + 0 and updated + 1, and a single  *)
(* row holds the item afterwards.                                          *)
C3_CountersReported ==
    [][\A c \in Procs :
          UpsertReturns(c) =>
              IF Stored(art[c].url) = {}
              THEN /\ created'[c] = created[c] + 1
                   /\ updated'[c] = updated[c]
              ELSE /\ created'[c] = created[c]
                   /\ updated'[c] = updated[c] + 1
                   /\ Cardinality({r \in articles' : r.url = art[c].url}) = 1]_vars

(* C4: an upsert whose lookup found a stored article writes the item's     *)
(* enrichment fields to that row and leaves collected_at as it was; no     *)
(* step changes the collected_at of a stored row.                          *)
C4_CollectedAtKept ==
    [][/\ \A r \in articles :
             \E r2 \in articles' : r2.id = r.id /\ r2.collected_at = r.collected_at
       /\ \A c \in Procs :
             (UpsertReturns(c) /\ existing[c] # 0) =>
                 \E r2 \in articles' :
                     /\ r2.id = existing[c]
                     /\ r2.sentiment_label = art[c].sentiment_label
                     /\ r2.sentiment_score = art[c].sentiment_score
                     /\ r2.goi_schemes = art[c].goi_schemes
                     /\ r2.relevance_score = art[c].relevance_score
                     /\ r2.content_category = art[c].content_category]_vars

(* an article stored at time 0 was met by two later upserts and holds a    *)
(* positive sentiment                                                      *)
C4_Witness ==
    /\ pc[Periodic] = "done"
    /\ updated[Periodic] = 1
    /\ clock >= 3
    /\ \E r \in articles : r.collected_at = 0 /\ r.sentiment_label = "positive"

(* C5: the alert table holds at most one row per article_id. *)
C5_OneAlertPerArticle ==
    \A r \in articles : Cardinality(AlertsFor(alerts, r.id)) <= 1

(* the alert predicate on a stored article *)
AlertPredicate(r) ==
    /\ ALERT_ENABLED
    /\ r.sentiment_label = "negative"
    /\ r.sentiment_score >= ALERT_NEGATIVE_THRESHOLD
    /\ r.goi_schemes > 0

(* C6: when a cycle has finished, every stored article that satisfies the  *)
(* alert predicate has exactly one PIBAlert row.                           *)
C6_AlertForEveryNegative ==
    (pc[Periodic] = "done") =>
        \A r \in articles :
            AlertPredicate(r) => Cardinality(AlertsFor(alerts, r.id)) = 1

(* C7: when the email of an alert failed, the row inserted for the alert   *)
(* is still in the table and its email_sent is false.                      *)
C7_FailedEmailKeepsRow ==
    \A d \in Dispatchers :
        (dpc[d] \in {"update", "done"} /\ alert_id[d] # 0 /\ ~success[d]) =>
            \E x \in alerts : x.id = alert_id[d] /\ x.email_sent = FALSE

(* a dispatch inserted a row, its email failed and the status was written  *)
C7_Witness ==
    \E d \in Dispatchers :
        /\ dpc[d] = "done" /\ alert_id[d] # 0 /\ ~success[d]
        /\ \E x \in alerts : x.id = alert_id[d] /\ x.article_id = darticle[d]

(* the acceptance rule as the specification words it *)
AcceptanceRule(e, trusted) ==
    \/ trusted /\ (e.goi_schemes > 0 \/ e.goi_ministries > 0)
    \/ /\ e.content_category = "Government"
       /\ e.should_show_pib
       /\ \/ e.relevance_score >= 40
          \/ e.confidence_score >= 70
          \/ e.goi_schemes > 0
          \/ e.goi_ministries > 0

(* C8: an item goes to the store exactly when it passes the acceptance     *)
(* rule, and a stored item's row is in the table after its upsert unless   *)
(* the unique hash is in conflict.                                         *)
C8_PersistedIffAccepted ==
    [][\A c \in Procs :
          /\ (pc[c] = "loop" /\ pos[c] <= Len(Entries)
                /\ (pc'[c] = "query" \/ pos'[c] = pos[c] + 1))
               => ((pc'[c] = "query")
                     <=> AcceptanceRule(Entries[pos[c]], feed.is_pib_source))
          /\ (UpsertReturns(c) /\ \A r \in articles : r.hash # art[c].hash)
               => \E r2 \in articles' : r2.hash = art[c].hash]_vars

(* C9: no collection cycle begins while another one is in progress. *)
C9_NoOverlap ==
    [][\A c \in Procs :
          (Resting(c) /\ ~Resting(c)') => \A o \in Procs \ {c} : Resting(o)]_vars

(* C10: at most one manual run is pending at any time. *)
C10_OnePending == pending <= 1

(* upsert_article raises in the step that process c is about to take *)
UpsertRaises(c) ==
    UpsertOutcome(articles, existing[c], StripConfidence(art[c])).how = "raised"

(* C11: when persisting an item fails, the item is skipped and the cycle   *)
(* goes on with the next item of the same source.                          *)
C11_FailedItemSkipped ==
    [][\A c \in Procs :
          (UpsertReturns(c) /\ UpsertRaises(c)) => pos'[c] = pos[c] + 1]_vars

(* the sources whose entries all reach the store when they are handled *)
SoundSources ==
    {n \in Sources : /\ n \notin feed.down
                     /\ \A i \in 1..Len(Entries) :
                           Entries[i].source = n => Entries[i].url \notin feed.unstorable}

(* C12: a source whose fetch fails does not fail its siblings: when the    *)
(* cycle has returned, every entry of every other source has been          *)
(* processed and its article is stored.                                    *)
C12_SiblingsProcessed ==
    (pc[Periodic] = "done") =>
        \A i \in 1..Len(Entries) :
            Entries[i].source \in SoundSources => Stored(Entries[i].url) # {}

(* the first feed was unreachable, the cycle returned and holds the        *)
(* article of the second feed only                                         *)
C12_Witness ==
    /\ pc[Periodic] = "done"
    /\ feed.down = {1}
    /\ Stored(2) # {}
    /\ Stored(1) = {}

(* upsert_article called for the dicts of seq one after the other *)
RECURSIVE ApplyAll(_, _)
ApplyAll(rows, seq) ==
    IF seq = <<>> THEN rows
    ELSE LET data == StripConfidence(Head(seq))
             m == {r \in rows : Matches(r, data)}
             found == IF m = {} THEN 0 ELSE (CHOOSE r \in m : TRUE).id
         IN ApplyAll(UpsertOutcome(rows, found, data).rows, Tail(seq))

(* the stored articles without the key and the collection time *)
Content(rows) ==
    {[k \in (DOMAIN r) \ {"id", "collected_at"} |-> r[k]] : r \in rows}

(* the article dicts of the feed's entries, last entry first *)
ReversedArticles ==
    [i \in 1..Len(Entries) |->
        LET e == Entries[Len(Entries) + 1 - i]
        IN entry_to_article(e, CHOOSE s \in e.sentiments : TRUE)]

(* C15: the stored articles do not depend on the order of the upserts:     *)
(* after the first cycle over the entries, the store holds what the same   *)
(* upserts leave when they are applied in the reverse order.               *)
C15_OrderIndependent ==
    (/\ pc[Periodic] = "done"
     /\ clock = Len(Entries)
     /\ feed.down = {} /\ feed.unstorable = {})
        => Content(articles) = Content(ApplyAll({}, ReversedArticles))

(* C13: a scored article with no anomalies has the flags of its level:     *)
(* high sets only auto_approved, medium only needs_verification, low only  *)
(* auto_rejected, so exactly one of the three flags is true.               *)
C13_FlagsFollowLevel ==
    (item.stage = "scored" /\ item.anomalies = {}) =>
        /\ item.auto_approved <=> (item.confidence_level = "high")
        /\ item.needs_verification <=> (item.confidence_level = "medium")
        /\ item.auto_rejected <=> (item.confidence_level = "low")
        /\ ~(item.auto_approved /\ item.auto_rejected)
        /\ ~(item.auto_approved /\ item.needs_verification)
        /\ ~(item.auto_rejected /\ item.needs_verification)

(* a scored article without anomalies whose level is low *)
C13_Witness ==
    /\ item.stage = "scored" /\ item.anomalies = {}
    /\ item.confidence_level = "low" /\ item.auto_rejected

(* C14: a scored article is never both auto_approved and auto_rejected;    *)
(* with anomalies it has needs_verification true and auto_approved false,  *)
(* and auto_rejected is what the level alone gives.                        *)
C14_AnomaliesOverride ==
    (item.stage = "scored") =>
        /\ ~(item.auto_approved /\ item.auto_rejected)
        /\ (item.anomalies # {}) =>
               /\ item.needs_verification
               /\ ~item.auto_approved
               /\ item.auto_rejected <=> (item.confidence_level = "low")

(* a scored article of level high with an anomaly *)
C14_Witness ==
    /\ item.stage = "scored" /\ item.anomalies # {}
    /\ item.confidence_level = "high" /\ item.needs_verification

(* C17: an entry whose confidence calculation raises gets confidence_score *)
(* 0.5, level medium, needs_verification true and the anomaly              *)
(* confidence_calculation_error, and the cycle goes on with it and with    *)
(* the entries after it: when the cycle has returned, its article and      *)
(* theirs are stored.                                                      *)
C17_FallbackItemContinues ==
    \A i \in 1..Len(Entries) :
        Entries[i].confidence_fails =>
            /\ \A s \in Entries[i].sentiments :
                  LET a == entry_to_article(Entries[i], s)
                  IN /\ a.confidence_score = 50
                     /\ a.confidence_level = "medium"
                     /\ a.needs_verification
                     /\ a.anomalies = {"confidence_calculation_error"}
            /\ (pc[Periodic] = "done") =>
                  \A j \in i..Len(Entries) : Stored(Entries[j].url) # {}

(* C16: an article that has a sentiment has sentiment_score in [0,1] and a *)
(* polarity whose sign is the label's: at most 0 under negative, at least  *)
(* 0 under positive, about 0 (within 0.05) under neutral.                  *)
C16_PolarityMatchesLabel ==
    (item.stage = "nlp" /\ item.sentiment_label # "none") =>
        /\ item.sentiment_score \in 0..100
        /\ (item.sentiment_label = "negative") => item.sentiment_polarity <= 0
        /\ (item.sentiment_label = "positive") => item.sentiment_polarity >= 0
        /\ (item.sentiment_label = "neutral") =>
               item.sentiment_polarity \in -5..5

(* C18: an article whose translator returned None goes on with the         *)
(* original text as text_for_nlp and has a sentiment.                      *)
C18_AlwaysSentiment ==
    (/\ item.stage = "nlp"
     /\ item.translation_tried /\ item.translated_text = "none") =>
        /\ item.text_for_nlp = "original"
        /\ item.sentiment_label # "none"

(* C19: with no cache client, or with a client whose reads and writes fail, *)
(* the analysis raises nothing and the article has the sentiment the models *)
(* and the adjuster compute.                                                *)
C19_CacheFailureHarmless ==
    (/\ item.stage = "nlp" /\ item.nlp_ran
     /\ item.cache \in {"absent", "failing"}) =>
        /\ ~item.raised
        /\ LET computed == ComputedSentiment(item.raw, item.adj)
               norm == normalize_sentiment(computed.label, computed.score)
           IN IF computed = NoSentimentDict
              THEN item.sentiment_label = "none"
              ELSE /\ item.sentiment_label = norm.label
                   /\ item.sentiment_score = norm.score
                   /\ item.sentiment_polarity = computed.polarity

(* an analysis with a failing cache client that gave a sentiment *)
C19_Witness ==
    /\ item.stage = "nlp" /\ item.nlp_ran
    /\ item.cache = "failing" /\ ~item.raised
    /\ item.sentiment_label = "positive"

(* C20: an article whose text has fewer than 10 characters has the language *)
(* result (unknown, Unknown, 0) and no sentiment analysis runs on it.       *)
C20_ShortTextSkipped ==
    (item.stage = "nlp" /\ item.len < 10) =>
        /\ item.detected_language = "unknown"
        /\ item.detected_script = "Unknown"
        /\ item.language_confidence = 0
        /\ ~item.nlp_ran

AddedAlerts == {x \in alerts' : \A y \in alerts : y.id # x.id}

(* C22: a PIBAlert row is inserted only by the upsert that has just        *)
(* created its article, and only when that article satisfies the alert     *)
(* predicate; an upsert that updates a stored article, and any step that   *)
(* is no upsert, adds no alert row.                                        *)
C22_AlertOnlyForCreated ==
    [][\A x \in AddedAlerts :
          \E c \in Procs :
             /\ UpsertReturns(c)
             /\ existing[c] = 0
             /\ \E r \in articles' :
                   /\ r.id = x.article_id
                   /\ \A q \in articles : q.id # r.id
                   /\ AlertPredicate(r)]_vars

(* C23: when two concurrent cycles each upsert the same new item (both     *)
(* looked the item up before either had stored it), the upsert that        *)
(* commits second does not raise, and one row holds the item afterwards.   *)
C23_ConcurrentUpsertsComplete ==
    [][\A c \in Procs :
          (/\ UpsertReturns(c)
           /\ existing[c] = 0
           /\ \E r \in articles : r.hash = art[c].hash)
              => /\ ~UpsertRaises(c)
                 /\ Cardinality({r \in articles' : r.url = art[c].url}) = 1]_vars

(* C24: with upserts applied one at a time, no two stored articles have    *)
(* the same url, also when the items share a url and differ in title.      *)
C24_UrlUnique ==
    \A r1 \in articles, r2 \in articles : r1.url = r2.url => r1.id = r2.id

(* a cycle stored an article and then met the same url under another title *)
C24_Witness ==
    /\ pc[Periodic] = "done"
    /\ Len(Entries) = 2 /\ Entries[1].url = Entries[2].url
    /\ Entries[1].title # Entries[2].title
    /\ updated[Periodic] = 1
    /\ Cardinality(articles) = 1

(* C25: the reported confidence_score of a scored article is in [0,1] and  *)
(* its confidence_level is high exactly from 0.80, medium exactly from     *)
(* 0.50 to below 0.80, and low exactly below 0.50.                         *)
C25_LevelAgreesWithScore ==
    (item.stage = "scored") =>
        /\ item.confidence_score \in 0..100
        /\ (item.confidence_level = "high") <=> (item.confidence_score >= 80)
        /\ (item.confidence_level = "medium") <=>
               (item.confidence_score >= 50 /\ item.confidence_score < 80)
        /\ (item.confidence_level = "low") <=> (item.confidence_score < 50)

(* C26: a dispatch attempts the email only after it has itself inserted    *)
(* the PIBAlert row of the article: a dispatch that found an existing row, *)
(* or whose insert failed, does not reach the email.                       *)
C26_EmailOnlyAfterInsert ==
    \A d \in Dispatchers :
        (dpc[d] = "email") =>
            /\ alert_id[d] # 0
            /\ \E x \in alerts : x.id = alert_id[d] /\ x.article_id = darticle[d]

(* C27: after a periodic cycle that raised, the next cycle is started (the *)
(* failure is followed by the same sleep as a return), and cycles are      *)
(* started again and again.                                                *)
C27_SchedulerSurvives ==
    /\ (pc[Periodic] = "failed") ~> (pc[Periodic] = "loop")
    /\ []<>(pc[Periodic] = "loop")

(* a periodic cycle has raised and the loop is about to start the next one *)
C27_Witness ==
    /\ pc[Periodic] = "failed"
    /\ ENABLED PeriodicStart

(* C28: while collect_async fetches, at most max_concurrent_feeds (10) source
   fetches are in flight at the same time *)
C28_BoundedFetches == Cardinality(InFlight) <= max_concurrent_feeds

C28_Witness ==
    /\ Cardinality(InFlight) = max_concurrent_feeds
    /\ \E f \in Feeds : fetch.task[f] = "created"

(* C29: when the sentiment of a text is already in the result cache, the
   analysis returns the cached sentiment and not one that the models
   computed for the text again *)
C29_CacheHitReturned ==
    (item.stage = "nlp" /\ item.nlp_ran /\ item.cache = "hit")
        => LET norm == normalize_sentiment(CachedSentiment.label,
                                           CachedSentiment.score)
           IN /\ ~item.raised
              /\ item.sentiment_label = norm.label
              /\ item.sentiment_score = norm.score
              /\ item.sentiment_polarity = CachedSentiment.polarity

(* C30: every item in which at least one scheme is detected leaves the
   relevance stage with is_goi true and a relevance_score of at least 0.8 *)
C30_SchemeBoost ==
    (item.stage = "relevance" /\ item.detected_schemes # {})
        => (item.is_goi /\ item.relevance_score >= 80)

====
